---- MODULE Spec2Model ----
(***************************************************************************)
(* Points ledger of streamlit_app.py: the points_log table behind          *)
(* insert_entry / load_entries / delete_entry, the totals of calc_totals,  *)
(* the reward helper get_next_reward and the script's earn / spend / admin *)
(* handlers.                                                               *)
(*                                                                         *)
(* Text is ASCII here: the emoji prefixes of the reward names and of the   *)
(* quick-earn labels are dropped, nothing depends on them.  A calendar day *)
(* is a small integer, a later day being a larger one.                     *)
(***************************************************************************)
EXTENDS Integers, Sequences, FiniteSets, TLC

VARIABLES
    rows,            \* the rows of table points_log (a set of records)
    seq,             \* last value handed out by the SERIAL sequence of column id
    today,           \* the calendar day date.today() returns
    df,              \* the frame of the latest load_entries() that succeeded
    balance_points,  \* the balance calc_totals() gave for that frame
    pc,              \* "page": the run loaded and shows its widgets;
                     \* "run": a script run is due (first run, st.rerun(), failed load)
    issued,          \* history: every id ever given to a committed row
    last             \* history: the latest store operation, how it ended, and
                     \* the id it assigned (append) or its row count (delete)

vars == <<rows, seq, today, df, balance_points, pc, issued, last>>

-----------------------------------------------------------------------------
(* Bounds and input sets *)

\* The sequence stops handing out ids here: at most MaxSeq inserts reach it.
MaxSeq == 3

\* Calendar days: 1 is the day before 2.
Dates == {1, 2}

\* SQL NULL / Python None.
NULL == "NULL"

\* <<person, activity, points, notes>> an arbitrary caller of insert_entry
\* passes: earns, spends and a zero, with a note, an empty note and no note.
EntriesIn ==
    { <<"Dougie", "Teeth",       5,  NULL>>,
      <<"Dougie", "Homework",    10, "">>,
      <<"Dad",    "SPEND: toy",  -3, "n">>,
      <<"Dougie", "SPEND: trip", -4, NULL>>,
      <<"Both",   "",            0,  "n">> }

\* What a parent types into a custom form: <<person, text, notes>>, the text
\* being the activity or the spend reason; the second form leaves it blank.
FormsIn == { <<"Dad", " walk ", " n ">>, <<"Both", "  ", "">> }

\* Positions of the "Points" slider (1 to 25) tried.
SliderIn == {1, 25}

\* Values of "Points to spend" (1 and up) tried.
SpendIn == {1, 10, 30}

\* PINs typed into the parent gate.
PinsIn == {"1234", "0000"}

\* Where an operation on the engine can fail: nowhere, before the statement
\* runs (no connection), or after it ran (the commit does not go through).
FailPoints == {"none", "connect", "commit"}

-----------------------------------------------------------------------------
(* Configuration *)

DEFAULT_PERSON == "Dougie"

\* st.secrets.get("PARENT_PIN", None), as the comment above it sets it.
PARENT_PIN == "1234"

REWARDS ==
    << [name |-> "Sweeties",          cost |-> 5,  notes |-> "Pick one sweet"],
       [name |-> "30 mins game time", cost |-> 5,  notes |-> "Extra game time"],
       [name |-> "Movie night pick",  cost |-> 10, notes |-> "You choose the film"],
       [name |-> "New toy",           cost |-> 25, notes |-> "A new toy"] >>

QUICK_EARN ==
    << <<"Teeth", 2>>, <<"Tidy toys", 3>>, <<"Kindness", 2>>, <<"Homework", 3>>,
       <<"Bedtime win", 4>>, <<"Helped", 2>>, <<"Changed Clothes", 2>> >>

-----------------------------------------------------------------------------
(* The store *)

\* notes or "": None and the empty string both become "".
NotesOrEmpty(notes) == IF notes = NULL \/ notes = "" THEN "" ELSE notes

\* insert_entry with the id taken as one more than the largest id in the table.
insert_entry_maxid(rws, s, entry_date, person, activity, points, notes, fail) ==
    LET top == IF rws = {} THEN 0
               ELSE CHOOSE m \in {r.id : r \in rws} : \A r \in rws : r.id <= m
        new == [id |-> top + 1, entry_date |-> entry_date, person |-> person,
                activity |-> activity, points |-> points,
                notes |-> NotesOrEmpty(notes)]
    IN  CASE fail = "none"    -> [rows |-> rws \cup {new}, seq |-> top + 1,
                                  id |-> top + 1, outcome |-> "ok"]
          [] fail = "connect" -> [rows |-> rws, seq |-> s,
                                  id |-> 0, outcome |-> "StoreUnavailable"]
          [] fail = "commit"  -> [rows |-> rws, seq |-> s,
                                  id |-> 0, outcome |-> "StoreUnavailable"]

\* insert_entry on a connection that commits each statement as it runs: the
\* row stays although the block raises.
insert_entry_autocommit(rws, s, entry_date, person, activity, points, notes, fail) ==
    LET new == [id |-> s + 1, entry_date |-> entry_date, person |-> person,
                activity |-> activity, points |-> points,
                notes |-> NotesOrEmpty(notes)]
    IN  CASE fail = "none"    -> [rows |-> rws \cup {new}, seq |-> s + 1,
                                  id |-> s + 1, outcome |-> "ok"]
          [] fail = "connect" -> [rows |-> rws, seq |-> s,
                                  id |-> 0, outcome |-> "StoreUnavailable"]
          [] fail = "commit"  -> [rows |-> rws \cup {new}, seq |-> s + 1,
                                  id |-> 0, outcome |-> "StoreUnavailable"]

\* INSERT INTO points_log ... inside engine.begin(): the id is the next value of
\* the sequence; the transaction commits when the block ends and rolls back when
\* it raises.  A sequence value drawn by a rolled-back insert is not given back.
\* points arrives as an integer, so int(points) is that integer.
insert_entry(rws, s, entry_date, person, activity, points, notes, fail) ==
    LET new == [id |-> s + 1, entry_date |-> entry_date, person |-> person,
                activity |-> activity, points |-> points,
                notes |-> NotesOrEmpty(notes)]
    IN  CASE fail = "none"    -> [rows |-> rws \cup {new}, seq |-> s + 1,
                                  id |-> s + 1, outcome |-> "ok"]
          [] fail = "connect" -> [rows |-> rws, seq |-> s,
                                  id |-> 0, outcome |-> "StoreUnavailable"]
          [] fail = "commit"  -> [rows |-> rws, seq |-> s + 1,
                                  id |-> 0, outcome |-> "StoreUnavailable"]

\* ORDER BY id DESC alone.
OrderBefore_idonly(r, o) == r.id > o.id

\* ORDER BY entry_date DESC, id DESC: r comes before o.
OrderBefore(r, o) ==
    \/ r.entry_date > o.entry_date
    \/ r.entry_date = o.entry_date /\ r.id > o.id

RECURSIVE OrderBy(_)
OrderBy(S) ==
    IF S = {} THEN << >>
    ELSE LET first == CHOOSE r \in S : \A o \in S \ {r} : OrderBefore(r, o)
         IN  <<first>> \o OrderBy(S \ {first})

\* SELECT ... ORDER BY entry_date DESC, id DESC, then the column clean-up of a
\* non-empty frame: entry_date and points keep their values, a NULL note
\* becomes "".
load_entries(rws) ==
    LET sorted == OrderBy(rws)
    IN  [i \in 1..Len(sorted) |->
            [sorted[i] EXCEPT !.notes = IF @ = NULL THEN "" ELSE @]]

\* delete_entry taking its argument as a position in the listed frame.
delete_entry_at(rws, entry_id, fail) ==
    LET frame == load_entries(rws)
        gone  == IF entry_id \in 1..Len(frame) THEN {frame[entry_id]} ELSE {}
    IN  IF fail = "none"
        THEN [rows |-> rws \ gone, rowcount |-> Cardinality(gone), outcome |-> "ok"]
        ELSE [rows |-> rws, rowcount |-> 0, outcome |-> "StoreUnavailable"]

\* delete_entry with WHERE id >= :id.
delete_entry_from(rws, entry_id, fail) ==
    IF fail = "none"
    THEN [rows |-> {r \in rws : r.id < entry_id},
          rowcount |-> Cardinality({r \in rws : r.id >= entry_id}),
          outcome |-> "ok"]
    ELSE [rows |-> rws, rowcount |-> 0, outcome |-> "StoreUnavailable"]

\* DELETE FROM points_log WHERE id = :id inside engine.begin().
delete_entry(rws, entry_id, fail) ==
    IF fail = "none"
    THEN [rows |-> {r \in rws : r.id # entry_id},
          rowcount |-> Cardinality({r \in rws : r.id = entry_id}),
          outcome |-> "ok"]
    ELSE [rows |-> rws, rowcount |-> 0, outcome |-> "StoreUnavailable"]

-----------------------------------------------------------------------------
(* Helpers *)

RECURSIVE SumPoints(_)
SumPoints(frame) ==
    IF frame = << >> THEN 0 ELSE Head(frame).points + SumPoints(Tail(frame))

IsEarn(r) == r.points > 0
IsSpend(r) == r.points < 0

\* lifetime as the sum of every entry, spends included.
calc_lifetime_net(frame) ==
    IF frame = << >> THEN 0 ELSE SumPoints(frame)

\* df.loc[df["points"] > 0, "points"].sum(), 0 on an empty frame
calc_lifetime(frame) ==
    IF frame = << >> THEN 0 ELSE SumPoints(SelectSeq(frame, IsEarn))

\* spent as a magnitude: the spends summed, sign dropped.
calc_spent_magnitude(frame) ==
    IF frame = << >> THEN 0 ELSE 0 - SumPoints(SelectSeq(frame, IsSpend))

\* df.loc[df["points"] < 0, "points"].sum(), 0 on an empty frame
calc_spent(frame) ==
    IF frame = << >> THEN 0 ELSE SumPoints(SelectSeq(frame, IsSpend))

\* today counting the earns of the day only.
calc_today_earned(frame, day) ==
    IF frame = << >> THEN 0
    ELSE SumPoints(SelectSeq(frame, LAMBDA r : r.entry_date = day /\ r.points > 0))

\* df.loc[df["entry_date"] == date.today(), "points"].sum(), 0 on an empty frame
calc_today(frame, day) ==
    IF frame = << >> THEN 0
    ELSE SumPoints(SelectSeq(frame, LAMBDA r : r.entry_date = day))

\* (lifetime, balance, today)
calc_totals(frame, day) ==
    << calc_lifetime(frame),
       calc_lifetime(frame) + calc_spent(frame),
       calc_today(frame, day) >>

\* The rewards still out of reach, in catalog order.
Locked(catalog, balance) == SelectSeq(catalog, LAMBDA r : r.cost > balance)

\* A sort by cost that puts r before the entries of its own cost.
RECURSIVE SortedByCost_unstable(_)
SortedByCost_unstable(s) ==
    IF s = << >> THEN << >>
    ELSE LET rest == SortedByCost_unstable(SubSeq(s, 1, Len(s) - 1))
             r    == s[Len(s)]
             k    == Cardinality({i \in 1..Len(rest) : rest[i].cost < r.cost})
         IN  SubSeq(rest, 1, k) \o <<r>> \o SubSeq(rest, k + 1, Len(rest))

\* sorted(..., key=cost) is stable: r goes after every entry whose cost is not
\* larger than its own.
RECURSIVE SortedByCost(_)
SortedByCost(s) ==
    IF s = << >> THEN << >>
    ELSE LET rest == SortedByCost(SubSeq(s, 1, Len(s) - 1))
             r    == s[Len(s)]
             k    == Cardinality({i \in 1..Len(rest) : rest[i].cost <= r.cost})
         IN  SubSeq(rest, 1, k) \o <<r>> \o SubSeq(rest, k + 1, Len(rest))

\* The None get_next_reward returns, as a record no reward equals.
NoReward == [none |-> TRUE]

\* upcoming[0] if upcoming else None
FirstUpcoming(catalog, balance) ==
    LET upcoming == SortedByCost(Locked(catalog, balance))
    IN  IF upcoming = << >> THEN NoReward ELSE upcoming[1]

get_next_reward(balance) == FirstUpcoming(REWARDS, balance)

\* can_buy as "there are points left".
can_buy_positive(balance, r) == balance > 0

\* can_buy = balance_points >= r["cost"]
can_buy(balance, r) == balance >= r.cost

\* The parent gate: open when no PIN is configured, else on the right PIN.
require_pin(pin) ==
    IF PARENT_PIN = NULL \/ PARENT_PIN = "" THEN TRUE ELSE pin = PARENT_PIN

\* str.strip() on the texts of FormsIn.
Strip(text) ==
    CASE text = " walk " -> "walk"
      [] text = " n "    -> "n"
      [] text = "  "     -> ""
      [] OTHER           -> text

-----------------------------------------------------------------------------
(* The script *)

Init ==
    /\ rows = {}
    /\ seq = 0
    /\ today \in Dates
    /\ df = << >>
    /\ balance_points = 0
    /\ pc = "run"
    /\ issued = {}
    /\ last = [op |-> "init", arg |-> 0, outcome |-> "ok"]

\* What a call of insert_entry does to the table and its sequence.
Store(res) ==
    /\ rows' = res.rows
    /\ seq' = res.seq
    /\ issued' = IF res.outcome = "ok" THEN issued \cup {res.id} ELSE issued
    /\ last' = [op |-> "append", arg |-> res.id, outcome |-> res.outcome]

\* insert_entry called on its own: the table changes, no snapshot does.
AppendEntry ==
    \E d \in Dates, e \in EntriesIn, f \in FailPoints :
        /\ seq < MaxSeq
        /\ Store(insert_entry(rows, seq, d, e[1], e[2], e[3], e[4], f))
        /\ UNCHANGED <<today, df, balance_points, pc>>

\* delete_entry called on its own, with any id.
DeleteById ==
    \E x \in 1..MaxSeq, f \in FailPoints :
        LET res == delete_entry(rows, x, f)
        IN  /\ rows' = res.rows
            /\ last' = [op |-> "delete", arg |-> res.rowcount, outcome |-> res.outcome]
            /\ UNCHANGED <<seq, today, issued, df, balance_points, pc>>

\* Midnight passes.
Tick ==
    /\ today + 1 \in Dates
    /\ today' = today + 1
    /\ UNCHANGED <<rows, seq, df, balance_points, pc, issued, last>>

\* The start of a script run: df = load_entries() in a transaction of its own,
\* then calc_totals(df).  When the load raises the run ends there, before any
\* widget, and the last loaded snapshot is all there is.  The second
\* load_entries of a run (before the history table) reads the same table.
LoadRun ==
    \E f \in FailPoints :
        /\ IF f = "none"
           THEN /\ df' = load_entries(rows)
                /\ balance_points' = calc_totals(load_entries(rows), today)[2]
                /\ pc' = "page"
           ELSE /\ pc' = "run"
                /\ UNCHANGED <<df, balance_points>>
        /\ UNCHANGED <<rows, seq, today, issued, last>>

\* A handler's insert_entry: st.rerun() follows a committed insert and the next
\* run is due; an insert that raises ends the run with the page as it was.
Written(res) ==
    /\ Store(res)
    /\ pc' = IF res.outcome = "ok" THEN "run" ELSE pc
    /\ UNCHANGED <<today, df, balance_points>>

\* A quick-earn button: insert_entry(date.today(), DEFAULT_PERSON, label, pts, "").
QuickEarn ==
    \E i \in 1..Len(QUICK_EARN), f \in FailPoints :
        /\ pc = "page"
        /\ seq < MaxSeq
        /\ Written(insert_entry(rows, seq, today, DEFAULT_PERSON,
                                QUICK_EARN[i][1], QUICK_EARN[i][2], "", f))

\* The "Add custom points" form: a blank activity is refused.
CustomAdd ==
    \E d \in Dates, t \in FormsIn, p \in SliderIn, f \in FailPoints :
        /\ pc = "page"
        /\ seq < MaxSeq
        /\ IF Strip(t[2]) = ""
           THEN UNCHANGED vars
           ELSE Written(insert_entry(rows, seq, d, t[1], Strip(t[2]), p,
                                     Strip(t[3]), f))

\* A "Buy" button of the rewards shop; it is disabled unless can_buy, judged
\* on the balance the run loaded.
BuyReward ==
    \E i \in 1..Len(REWARDS), f \in FailPoints :
        /\ pc = "page"
        /\ seq < MaxSeq
        /\ can_buy(balance_points, REWARDS[i])
        /\ Written(insert_entry(rows, seq, today, DEFAULT_PERSON,
                                "SPEND: " \o REWARDS[i].name, -REWARDS[i].cost,
                                REWARDS[i].notes, f))

\* The "Custom spend (Parent)" form behind the PIN: a blank reason and an
\* amount above the loaded balance are refused.
CustomSpend ==
    \E pin \in PinsIn, d \in Dates, t \in FormsIn, p \in SpendIn, f \in FailPoints :
        /\ pc = "page"
        /\ seq < MaxSeq
        /\ require_pin(pin)
        /\ IF Strip(t[2]) = "" \/ p > balance_points
           THEN UNCHANGED vars
           ELSE Written(insert_entry(rows, seq, d, t[1], "SPEND: " \o Strip(t[2]),
                                     -p, Strip(t[3]), f))

\* The admin panel behind the PIN: nothing to delete on an empty frame, else
\* one of the ids of the loaded frame is selected and deleted.
AdminDelete ==
    \E pin \in PinsIn, k \in 1..MaxSeq, f \in FailPoints :
        /\ pc = "page"
        /\ require_pin(pin)
        /\ df # << >>
        /\ k \in 1..Len(df)
        /\ LET res == delete_entry(rows, df[k].id, f)
           IN  /\ rows' = res.rows
               /\ last' = [op |-> "delete", arg |-> res.rowcount,
                           outcome |-> res.outcome]
               /\ pc' = IF res.outcome = "ok" THEN "run" ELSE pc
               /\ UNCHANGED <<seq, today, issued, df, balance_points>>

\* The store under direct calls of its operations.
Next == AppendEntry \/ DeleteById \/ Tick

Spec == Init /\ [][Next]_vars

\* One user session of the application, the admin delete left aside.
SessionNext ==
    LoadRun \/ QuickEarn \/ CustomAdd \/ BuyReward \/ CustomSpend \/ Tick

SessionSpec == Init /\ [][SessionNext]_vars

\* One user session of the whole application.
AppNext == SessionNext \/ AdminDelete

AppSpec == Init /\ [][AppNext]_vars

-----------------------------------------------------------------------------
(* Vocabulary of the properties *)

Ids(rws) == {r.id : r \in rws}

\* Sum of points over a set of rows.
RECURSIVE SetSum(_)
SetSum(S) ==
    IF S = {} THEN 0
    ELSE LET r == CHOOSE x \in S : TRUE IN r.points + SetSum(S \ {r})

\* The totals of the store as it is: computeTotals on list().
Totals == calc_totals(load_entries(rows), today)

\* The rows as <<points, entry_date>> pairs.
Shape(rws) == {<<r.points, r.entry_date>> : r \in rws}

\* The store holds exactly n rows, of the given shape.
Holds(n, shape) == Cardinality(rows) = n /\ Shape(rows) = shape

\* Every row is a full record whose note is a text.
TypeOK ==
    /\ \A r \in rows :
          /\ DOMAIN r = {"id", "entry_date", "person", "activity", "points", "notes"}
          /\ r.id \in 1..seq
          /\ r.entry_date \in Dates
          /\ r.points \in Int
          /\ r.notes # NULL
    /\ pc \in {"page", "run"}
    /\ (pc = "page" => df = load_entries(rows) /\ balance_points = Totals[2])

-----------------------------------------------------------------------------
(* C1 *)

\* C1: whatever appends and deletes led to the store, lifetime is the sum of
\* the earns, spent the sum of the spends and never positive, balance is
\* lifetime + spent and so the sum of all entries; the empty store gives
\* (0, 0, 0).
C1_BalanceIsLifetimePlusSpent ==
    LET frame == load_entries(rows)
        spent == calc_spent(frame)
    IN  /\ Totals[1] = SetSum({r \in rows : r.points > 0})
        /\ spent = SetSum({r \in rows : r.points < 0})
        /\ spent <= 0
        /\ Totals[2] = Totals[1] + spent
        /\ Totals[2] = SetSum(rows)
        /\ (rows = {} => Totals = <<0, 0, 0>>)

\* Earns and spends are stored, and a row has been deleted.
C1_Witness ==
    /\ \E r \in rows : r.points > 0
    /\ \E r \in rows : r.points < 0
    /\ issued \ Ids(rows) # {}
    /\ Totals[2] = SetSum(rows)
    /\ Totals[2] # Totals[1]

-----------------------------------------------------------------------------
(* C2 *)

\* C2: an append gives its row an id above every id given before, deleted
\* rows included, so no id comes back and the stored ids are pairwise distinct.
C2_FreshIds ==
    /\ [](\A r1, r2 \in rows : r1.id = r2.id => r1 = r2)
    /\ [][\A r \in rows' \ rows : \A i \in issued : r.id > i]_vars

\* The row of an earlier append is gone and a later append has succeeded.
C2_Witness ==
    /\ last.op = "append" /\ last.outcome = "ok"
    /\ last.arg \in Ids(rows)
    /\ \E i \in issued \ Ids(rows) : i < last.arg

-----------------------------------------------------------------------------
(* C3 *)

\* C3: deleting an id no row has leaves the store as it is and raises nothing,
\* and deleting the same id twice leaves the store as deleting it once does.
C3_DeleteIdempotent ==
    \A x \in 1..(MaxSeq + 1) :
        LET once  == delete_entry(rows, x, "none")
            twice == delete_entry(once.rows, x, "none")
        IN  /\ once.outcome = "ok"
            /\ twice.outcome = "ok"
            /\ twice.rows = once.rows
            /\ (x \notin Ids(rows) => once.rows = rows)

\* A delete has just found no row in a store that holds rows.
C3_Witness ==
    /\ last.op = "delete" /\ last.outcome = "ok" /\ last.arg = 0
    /\ Cardinality(rows) >= 2

-----------------------------------------------------------------------------
(* C4 *)

\* C4: list() returns every stored row once and nothing else, by entry_date
\* descending and by id descending among equal dates; rows dated 1/id 1,
\* 2/id 2, 1/id 3 come as ids 2, 3, 1, and the empty store gives the empty list.
C4_ListOrdered ==
    LET frame == load_entries(rows)
    IN  /\ Len(frame) = Cardinality(rows)
        /\ {frame[i] : i \in 1..Len(frame)} = rows
        /\ \A i, j \in 1..Len(frame) :
              i < j => \/ frame[i].entry_date > frame[j].entry_date
                       \/ /\ frame[i].entry_date = frame[j].entry_date
                          /\ frame[i].id > frame[j].id
        /\ ({<<r.id, r.entry_date>> : r \in rows} = {<<1, 1>>, <<2, 2>>, <<3, 1>>}
               => [i \in 1..Len(frame) |-> frame[i].id] = <<2, 3, 1>>)
        /\ (rows = {} => frame = << >>)

\* The three rows of the example are stored and listed.
C4_Witness ==
    /\ {<<r.id, r.entry_date>> : r \in rows} = {<<1, 1>>, <<2, 2>>, <<3, 1>>}
    /\ [i \in 1..Len(load_entries(rows)) |-> load_entries(rows)[i].id] = <<2, 3, 1>>

-----------------------------------------------------------------------------
(* C5 *)

\* C5: in a step that deletes no earn, lifetime does not go down: appending
\* an earn raises it by the earn's points, appending a spend or a zero and
\* deleting a spend or a zero leave it as it is.
C5_LifetimeMonotone ==
    [][ (\A r \in rows \ rows' : r.points <= 0) =>
          LET before == calc_totals(load_entries(rows), today)[1]
              after  == calc_totals(load_entries(rows'), today')[1]
          IN  /\ after >= before
              /\ \A r \in rows' \ rows :
                    IF r.points > 0 THEN after = before + r.points
                                    ELSE after = before
              /\ (rows' \subseteq rows => after = before) ]_vars

\* An earn was appended to a store that already held an earn and a spend.
C5_Witness ==
    /\ last.op = "append" /\ last.outcome = "ok"
    /\ \E r \in rows : r.id = last.arg /\ r.points > 0 /\ Totals[1] > r.points
    /\ \E r \in rows : r.points < 0

-----------------------------------------------------------------------------
(* C6 *)

\* C6: an append or delete that fails leaves the stored rows exactly as they
\* were, reports the failure, and is not run a second time (at most one id is
\* drawn); every stored row is a whole row.
C6_FailureChangesNothing ==
    /\ [](\A r \in rows :
             DOMAIN r = {"id", "entry_date", "person", "activity", "points", "notes"})
    /\ [][ /\ (last'.outcome = "StoreUnavailable" =>
                 /\ rows' = rows
                 /\ seq' \in {seq, seq + 1})
           /\ (rows' # rows => last'.outcome = "ok") ]_vars

\* An append failed after its statement ran: its id is drawn, no row has it.
C6_Witness ==
    /\ last.op = "append" /\ last.outcome = "StoreUnavailable"
    /\ seq \notin issued
    /\ rows # {}

-----------------------------------------------------------------------------
(* C7 *)

\* C7: a step leaves every row that stays as it was; it changes the store
\* only by adding one row under an id never used before (an append) or by
\* removing the one row of an id (a delete).
C7_RowsImmutable ==
    [][ /\ \A r \in rows, r2 \in rows' : r.id = r2.id => r = r2
        /\ \/ rows' = rows
           \/ /\ last'.op = "append"
              /\ \E new \in rows' :
                    /\ new.id \notin Ids(rows) \cup issued
                    /\ rows' = rows \cup {new}
           \/ /\ last'.op = "delete"
              /\ \E x \in Ids(rows) : rows' = {r \in rows : r.id # x} ]_vars

\* A delete took one row out and left the others.
C7_Witness ==
    /\ last.op = "delete" /\ last.outcome = "ok" /\ last.arg = 1
    /\ Cardinality(rows) >= 2
    /\ Cardinality(issued) = Cardinality(rows) + 1

-----------------------------------------------------------------------------
(* C8 *)

\* The catalog of the example.
CatalogAB == << [name |-> "A", cost |-> 5], [name |-> "B", cost |-> 10] >>

\* The locked reward of least cost, the first declared among equals.
NextOf(catalog, balance) ==
    LET lockedAt == {i \in 1..Len(catalog) : catalog[i].cost > balance}
    IN  IF lockedAt = {} THEN NoReward
        ELSE catalog[CHOOSE i \in lockedAt :
                        \A j \in lockedAt :
                            \/ catalog[i].cost < catalog[j].cost
                            \/ catalog[i].cost = catalog[j].cost /\ i <= j]

\* C8: a reward can be bought exactly when its cost is at most the balance and
\* is locked otherwise; the next reward is the locked one of least cost, the
\* first declared among equal costs, and there is none exactly when nothing is
\* locked; with the catalog A 5, B 10 and balance 7, A is affordable and B next.
C8_NextReward ==
    LET b == Totals[2]
    IN  /\ \A i \in 1..Len(REWARDS) :
              /\ can_buy(b, REWARDS[i]) <=> REWARDS[i].cost <= b
              /\ ~can_buy(b, REWARDS[i]) <=>
                    \E k \in 1..Len(Locked(REWARDS, b)) : Locked(REWARDS, b)[k] = REWARDS[i]
        /\ get_next_reward(b) = NextOf(REWARDS, b)
        /\ (get_next_reward(b) = NoReward <=> \A i \in 1..Len(REWARDS) : REWARDS[i].cost <= b)
        /\ FirstUpcoming(CatalogAB, b) = NextOf(CatalogAB, b)
        /\ (b = 7 => /\ {i \in 1..2 : can_buy(b, CatalogAB[i])} = {1}
                     /\ FirstUpcoming(CatalogAB, b) = CatalogAB[2])

\* The balance is 7: A affordable, B next.
C8_Witness ==
    /\ Totals[2] = 7
    /\ FirstUpcoming(CatalogAB, Totals[2]).name = "B"
    /\ get_next_reward(Totals[2]).name = "Movie night pick"

-----------------------------------------------------------------------------
(* C9 *)

\* The part of C9 its examples do not touch: today is the signed sum of the
\* entries dated today, +5 and -3 today give (5, 2, 2), +10 yesterday and -4
\* today give (10, 6, -4).
C9_TodayIsSumOfTodaysEntries ==
    /\ Totals[3] = SetSum({r \in rows : r.entry_date = today})
    /\ (Holds(2, {<<5, today>>, <<-3, today>>}) => Totals = <<5, 2, 2>>)
    /\ (Holds(2, {<<10, today - 1>>, <<-4, today>>}) => Totals = <<10, 6, -4>>)

\* The step of the third example: the -3 row goes, the +5 row of today stays.
C9_DeleteTheSpend ==
    /\ Holds(2, {<<5, today>>, <<-3, today>>})
    /\ rows' = {r \in rows : r.points # -3}

\* C9 as stated: after the -3 row of the first example is deleted the totals
\* are lifetime 5, balance 5, today 0.
C9_AsStated ==
    /\ []C9_TodayIsSumOfTodaysEntries
    /\ [][C9_DeleteTheSpend =>
            calc_totals(load_entries(rows'), today') = <<5, 5, 0>>]_vars

\* C9 amended: today is the signed sum of the entries dated today, and after
\* the -3 row of the first example is deleted the totals are lifetime 5,
\* balance 5, today 5, the +5 entry being dated today.
C9_TodayPoints ==
    /\ []C9_TodayIsSumOfTodaysEntries
    /\ [][C9_DeleteTheSpend =>
            calc_totals(load_entries(rows'), today') = <<5, 5, 5>>]_vars

\* The -3 row of the first example has been deleted.
C9_Witness ==
    /\ last.op = "delete" /\ last.outcome = "ok" /\ last.arg = 1
    /\ Holds(1, {<<5, today>>})
    /\ Cardinality(issued) = 2
    /\ Totals = <<5, 5, 5>>

-----------------------------------------------------------------------------
(* C10 *)

\* C10: in one session of earns, custom adds, purchases and custom spends,
\* with no delete, the balance is never negative, neither the stored one nor
\* the loaded one: whenever the page offers its handlers the snapshot they
\* check is the store's.
C10_BalanceNeverNegative ==
    /\ balance_points >= 0
    /\ Totals[2] >= 0
    /\ (pc = "page" => df = load_entries(rows) /\ balance_points = Totals[2])

\* Everything earned has been spent in the shop, and the page has reloaded.
C10_Witness ==
    /\ pc = "page"
    /\ balance_points = 0
    /\ last.op = "append" /\ last.outcome = "ok"
    /\ \E r \in rows : r.id = last.arg /\ r.activity = "SPEND: Sweeties"

====
